---- MODULE Spec2Model ----
(***************************************************************************)
(* A model of naming_ekho_unlock+deletehunweekly.py: the derivation of a   *)
(* PDF's new file name from its text (name parsing, date extraction, file  *)
(* name composition) and the folder loop that unlocks, strips, and renames *)
(* every PDF of a folder.                                                  *)
(*                                                                         *)
(* A Python str is a sequence of one-character strings.  A combining mark  *)
(* (which NFKD produces) is one element of such a sequence as well.        *)
(***************************************************************************)
EXTENDS Integers, Sequences, FiniteSets, TLC

VARIABLES
    inp,        \* the arguments of the function under study
    out,        \* its result, once it has been applied
    folder,     \* the folder: file name -> document
    listing,    \* os.listdir(folder_path), taken once before the loop
    idx,        \* position of the loop in listing
    pc,         \* the step of the loop body the current file is at
    cur,        \* locals of the loop body: full_text, new_name
    attempts,   \* per listing entry: how many times its try block was entered
    renames,    \* per listing entry: how many times os.rename was called
    log         \* per listing entry: what was printed for it

vars == <<inp, out, folder, listing, idx, pc, cur, attempts, renames, log>>

---------------------------------------------------------------------------
(* Characters and the str methods the program uses. *)

LowerLetters ==
    <<"a", "b", "c", "d", "e", "f", "g", "h", "i", "j", "k", "l", "m",
      "n", "o", "p", "q", "r", "s", "t", "u", "v", "w", "x", "y", "z",
      "á", "é", "í", "ó", "ö", "ú", "ü">>

UpperLetters ==
    <<"A", "B", "C", "D", "E", "F", "G", "H", "I", "J", "K", "L", "M",
      "N", "O", "P", "Q", "R", "S", "T", "U", "V", "W", "X", "Y", "Z",
      "Á", "É", "Í", "Ó", "Ö", "Ú", "Ü">>

Digits == <<"0", "1", "2", "3", "4", "5", "6", "7", "8", "9">>

\* The combining marks of the accented letters above.
Acute == "U+0301"
Diaeresis == "U+0308"

IndexIn(c, seq) ==
    IF \E i \in 1..Len(seq) : seq[i] = c
    THEN CHOOSE i \in 1..Len(seq) : seq[i] = c
    ELSE 0

\* str.upper() and str.lower(), one character at a time.
upper_char(c) ==
    LET i == IndexIn(c, LowerLetters) IN IF i = 0 THEN c ELSE UpperLetters[i]

lower_char(c) ==
    LET i == IndexIn(c, UpperLetters) IN IF i = 0 THEN c ELSE LowerLetters[i]

upper(s) == [i \in 1..Len(s) |-> upper_char(s[i])]

lower(s) == [i \in 1..Len(s) |-> lower_char(s[i])]

\* unicodedata.combining(c) != 0
combining(c) == c \in {Acute, Diaeresis}

\* unicodedata.normalize('NFKD', c) of one character.
NFKD_char(c) ==
    CASE c = "á" -> <<"a", Acute>>
      [] c = "é" -> <<"e", Acute>>
      [] c = "í" -> <<"i", Acute>>
      [] c = "ó" -> <<"o", Acute>>
      [] c = "ú" -> <<"u", Acute>>
      [] c = "ö" -> <<"o", Diaeresis>>
      [] c = "ü" -> <<"u", Diaeresis>>
      [] c = "Á" -> <<"A", Acute>>
      [] c = "É" -> <<"E", Acute>>
      [] c = "Í" -> <<"I", Acute>>
      [] c = "Ó" -> <<"O", Acute>>
      [] c = "Ú" -> <<"U", Acute>>
      [] c = "Ö" -> <<"O", Diaeresis>>
      [] c = "Ü" -> <<"U", Diaeresis>>
      [] OTHER -> <<c>>

RECURSIVE NFKD(_)
NFKD(s) == IF s = <<>> THEN <<>> ELSE NFKD_char(Head(s)) \o NFKD(Tail(s))

\* "".join([c for c in nfkd_form if not unicodedata.combining(c)])
remove_accents(input_str) ==
    LET nfkd_form == NFKD(input_str)
        keep(c) == ~combining(c)
    IN SelectSeq(nfkd_form, keep)

\* str.isspace() of one character.
IsSpace(c) == c \in {" ", "\t", "\n", "\r"}

IsDigit(c) == c \in {"0", "1", "2", "3", "4", "5", "6", "7", "8", "9"}

\* str.strip()
RECURSIVE lstrip(_)
lstrip(s) ==
    IF s # <<>> /\ IsSpace(Head(s)) THEN lstrip(Tail(s)) ELSE s

RECURSIVE rstrip(_)
rstrip(s) ==
    IF s # <<>> /\ IsSpace(s[Len(s)])
    THEN rstrip(SubSeq(s, 1, Len(s) - 1))
    ELSE s

strip(s) == rstrip(lstrip(s))

\* str.split() with no separator: the maximal runs of non-whitespace.
RECURSIVE split_from(_, _, _, _)
split_from(s, i, word, parts) ==
    IF i > Len(s)
    THEN IF word = <<>> THEN parts ELSE Append(parts, word)
    ELSE IF IsSpace(s[i])
         THEN split_from(s, i + 1, <<>>,
                         IF word = <<>> THEN parts ELSE Append(parts, word))
         ELSE split_from(s, i + 1, Append(word, s[i]), parts)

split(s) == split_from(s, 1, <<>>, <<>>)

\* sep.join(parts)
RECURSIVE join(_, _)
join(sep, parts) ==
    IF parts = <<>> THEN <<>>
    ELSE IF Len(parts) = 1 THEN parts[1]
    ELSE parts[1] \o sep \o join(sep, Tail(parts))

\* s.startswith(pat, i - 1), positions counted from 1.
startswith_at(s, i, pat) ==
    /\ i + Len(pat) - 1 <= Len(s)
    /\ \A k \in 1..Len(pat) : s[i + k - 1] = pat[k]

\* The least of a set of positions, 0 when there is none: where a scan from
\* left to right stops.
first_pos(hits) ==
    IF hits = {} THEN 0 ELSE CHOOSE k \in hits : \A j \in hits : k <= j

\* s.find(pat) + 1: the first position where pat occurs, 0 (Python's -1) when
\* there is none.
find(s, pat) ==
    first_pos({i \in 1..Len(s) : startswith_at(s, i, pat)})

\* pat in s
contains(s, pat) == find(s, pat) # 0

\* s.split(pat)[0]: everything before the first occurrence of pat.
split_first(s, pat) ==
    LET p == find(s, pat) IN IF p = 0 THEN s ELSE SubSeq(s, 1, p - 1)

\* s[-n:], for n <= len(s)
Suffix(s, n) == SubSeq(s, Len(s) - n + 1, Len(s))

\* The elements of a list.
Range(f) == {f[i] : i \in DOMAIN f}

\* s[:n]
prefix(s, n) == SubSeq(s, 1, IF n < Len(s) THEN n ELSE Len(s))

---------------------------------------------------------------------------
(* Name parsing. *)

Company == <<"C", "o", "m", "p", "a", "n", "y">>

\* is_first_name with the lookup done on the strings as they are.
is_first_name_exact(name, names_db) == name \in names_db

is_first_name(name, names_db) ==
    LET name_normalized == lower(strip(remove_accents(name)))
        names_normalized == {lower(remove_accents(n)) : n \in names_db}
    IN name_normalized \in names_normalized

\* parse_name with the dictionary asked about the second token.
parse_name_second_token(raw_name0, names_db) ==
    LET stripped == strip(raw_name0)
        raw_name == IF contains(stripped, Company)
                    THEN strip(split_first(stripped, Company))
                    ELSE stripped
        parts == split(raw_name)
    IN IF Len(parts) >= 2 /\ is_first_name(parts[2], names_db)
       THEN LET reordered == <<parts[2], parts[1]>> \o SubSeq(parts, 3, Len(parts))
                reordered_name == join(<<" ">>, reordered)
            IN upper(remove_accents(reordered_name))
       ELSE upper(remove_accents(raw_name))

parse_name(raw_name0, names_db) ==
    LET stripped == strip(raw_name0)
        raw_name == IF contains(stripped, Company)
                    THEN strip(split_first(stripped, Company))
                    ELSE stripped
        parts == split(raw_name)
    IN IF Len(parts) >= 2 /\ is_first_name(parts[1], names_db)
       THEN LET reordered == <<parts[2], parts[1]>> \o SubSeq(parts, 3, Len(parts))
                reordered_name == join(<<" ">>, reordered)
            IN upper(remove_accents(reordered_name))
       ELSE upper(remove_accents(raw_name))

\* get_short_name_code with the code taken from the last token.
get_short_name_code_last_token(full_name) ==
    LET parts == split(full_name) IN
    IF parts = <<>> THEN [ok |-> FALSE, val |-> <<>>]
    ELSE [ok |-> TRUE, val |-> upper(prefix(parts[Len(parts)], 4))]

\* Raises IndexError (ok = FALSE) when full_name has no token.
get_short_name_code(full_name) ==
    LET parts == split(full_name) IN
    IF parts = <<>> THEN [ok |-> FALSE, val |-> <<>>]
    ELSE LET last_name == parts[1]
             length == Len(last_name)
         IN [ok |-> TRUE,
             val |-> IF length >= 4 THEN upper(prefix(last_name, 4))
                     ELSE IF length = 3 THEN upper(prefix(last_name, 3))
                     ELSE upper(last_name)]

---------------------------------------------------------------------------
(* datetime: construction, ordering, strftime('%m%d'), minus one day. *)

DAYS_IN_MONTH == <<31, 28, 31, 30, 31, 30, 31, 31, 30, 31, 30, 31>>
DAYS_BEFORE_MONTH == <<0, 31, 59, 90, 120, 151, 181, 212, 243, 273, 304, 334>>

is_leap(year) == year % 4 = 0 /\ (year % 100 # 0 \/ year % 400 = 0)

days_in_month(year, month) ==
    IF month = 2 /\ is_leap(year) THEN 29 ELSE DAYS_IN_MONTH[month]

\* datetime(year, month, day) raises ValueError unless this holds.
datetime_ok(year, month, day) ==
    /\ 1 <= year /\ year <= 9999
    /\ 1 <= month /\ month <= 12
    /\ 1 <= day /\ day <= days_in_month(year, month)

days_before_year(year) ==
    LET y == year - 1 IN y * 365 + (y \div 4) - (y \div 100) + (y \div 400)

days_before_month(year, month) ==
    DAYS_BEFORE_MONTH[month] + (IF month > 2 /\ is_leap(year) THEN 1 ELSE 0)

toordinal(dt) ==
    days_before_year(dt[1]) + days_before_month(dt[1], dt[2]) + dt[3]

fromordinal(ordinal) ==
    LET n0 == ordinal - 1
        n400 == n0 \div 146097
        r400 == n0 % 146097
        n100 == r400 \div 36524
        r100 == r400 % 36524
        n4 == r100 \div 1461
        r4 == r100 % 1461
        n1 == r4 \div 365
        n == r4 % 365
        year == n400 * 400 + 1 + n100 * 100 + n4 * 4 + n1
    IN IF n1 = 4 \/ n100 = 4 THEN <<year - 1, 12, 31>>
       ELSE LET leapyear == n1 = 3 /\ (n4 # 24 \/ n100 = 3)
                leap(m) == IF m > 2 /\ leapyear THEN 1 ELSE 0
                month0 == (n + 50) \div 32
                preceding0 == DAYS_BEFORE_MONTH[month0] + leap(month0)
                month == IF preceding0 > n THEN month0 - 1 ELSE month0
                preceding ==
                    IF preceding0 > n
                    THEN preceding0 - (DAYS_IN_MONTH[month]
                                       + (IF month = 2 /\ leapyear THEN 1 ELSE 0))
                    ELSE preceding0
            IN <<year, month, n - preceding + 1>>

\* dt - timedelta(days=1); raises OverflowError (ok = FALSE) below datetime.min.
minus_one_day(dt) ==
    LET ordinal == toordinal(dt) - 1 IN
    IF ordinal < 1 THEN [ok |-> FALSE, val |-> dt]
    ELSE [ok |-> TRUE, val |-> fromordinal(ordinal)]

two_digits(n) == <<Digits[(n \div 10) + 1], Digits[(n % 10) + 1]>>

\* dt.strftime('%m%d')
strftime_md(dt) == two_digits(dt[2]) \o two_digits(dt[3])

\* dt1 < dt2
datetime_lt(a, b) ==
    \/ a[1] < b[1]
    \/ a[1] = b[1] /\ a[2] < b[2]
    \/ a[1] = b[1] /\ a[2] = b[2] /\ a[3] < b[3]

\* list.sort(): ascending, equal elements kept.
RECURSIVE insert_sorted(_, _)
insert_sorted(dates, dt) ==
    IF dates = <<>> THEN <<dt>>
    ELSE IF datetime_lt(dt, Head(dates)) THEN <<dt>> \o dates
    ELSE <<Head(dates)>> \o insert_sorted(Tail(dates), dt)

\* sort that leaves the list in the order of the text.
sort_not_sorted(dates) == dates

RECURSIVE sort(_)
sort(dates) ==
    IF dates = <<>> THEN <<>>
    ELSE insert_sorted(sort(SubSeq(dates, 1, Len(dates) - 1)), dates[Len(dates)])

---------------------------------------------------------------------------
(* Date extraction. *)

\* int(s) of a string of decimal digits.
RECURSIVE int(_)
int(s) ==
    IF s = <<>> THEN 0
    ELSE int(SubSeq(s, 1, Len(s) - 1)) * 10 + (IndexIn(s[Len(s)], Digits) - 1)

\* [./-]
IsSep(c) == c \in {".", "/", "-"}

\* How many of the characters of s from position i on are digits, at most most.
RECURSIVE digit_run(_, _, _)
digit_run(s, i, most) ==
    IF most = 0 \/ i > Len(s) \/ ~IsDigit(s[i]) THEN 0
    ELSE 1 + digit_run(s, i + 1, most - 1)

sep_at(s, i) == i <= Len(s) /\ IsSep(s[i])

\* A match, at position i exactly, of
\*   \d{lo1,hi1} [./-] \d{1,2} [./-] \d{lo3,hi3}
\* Each \d{..} is greedy; giving a digit back never helps, since the character
\* that then follows is a digit, where a separator (or nothing more) is needed.
match_three(s, i, lo1, hi1, lo3, hi3) ==
    LET n1 == digit_run(s, i, hi1)
        p2 == i + n1 + 1
        n2 == digit_run(s, p2, 2)
        p3 == p2 + n2 + 1
        n3 == digit_run(s, p3, hi3)
    IN IF /\ n1 >= lo1 /\ sep_at(s, i + n1)
          /\ n2 >= 1 /\ sep_at(s, p2 + n2)
          /\ n3 >= lo3
       THEN [ok |-> TRUE,
             groups |-> <<SubSeq(s, i, i + n1 - 1),
                          SubSeq(s, p2, p2 + n2 - 1),
                          SubSeq(s, p3, p3 + n3 - 1)>>,
             end |-> p3 + n3]
       ELSE [ok |-> FALSE, groups |-> <<>>, end |-> 0]

\* (\d{4})[./-](\d{1,2})[./-](\d{1,2})
match_ymd(s, i) == match_three(s, i, 4, 4, 1, 2)

\* (\d{1,2})[./-](\d{1,2})[./-](\d{2,4})
match_dmy(s, i) == match_three(s, i, 1, 2, 2, 4)

\* re.findall(date_pattern, s): the matches from left to right, not overlapping,
\* the first alternative tried first at each position; each match is the
\* tuple of the six groups, the groups of the other alternative empty.
RECURSIVE findall_dates(_, _)
findall_dates(s, start) ==
    LET i == first_pos({k \in start..Len(s) :
                           IsDigit(s[k]) /\ (match_ymd(s, k).ok \/ match_dmy(s, k).ok)})
    IN IF i = 0 THEN <<>>
       ELSE LET a == match_ymd(s, i)
                b == match_dmy(s, i)
            IN IF a.ok
               THEN <<a.groups \o <<<<>>, <<>>, <<>>>> >>
                    \o findall_dates(s, a.end)
               ELSE << <<<<>>, <<>>, <<>>>> \o b.groups>>
                    \o findall_dates(s, b.end)

Twenty == <<"2", "0">>

\* parse_match with the second alternative read day first, then month first.
parse_match_day_first(dates, m) ==
    IF m[1] # <<>>
    THEN IF datetime_ok(int(m[1]), int(m[2]), int(m[3]))
         THEN Append(dates, <<int(m[1]), int(m[2]), int(m[3])>>)
         ELSE dates
    ELSE LET y == IF Len(m[6]) = 2 THEN <<"2", "0">> \o m[6] ELSE m[6]
         IN IF datetime_ok(int(y), int(m[5]), int(m[4]))
            THEN Append(dates, <<int(y), int(m[5]), int(m[4])>>)
            ELSE IF datetime_ok(int(y), int(m[4]), int(m[5]))
            THEN Append(dates, <<int(y), int(m[4]), int(m[5])>>)
            ELSE dates

\* parse_match with the second alternative read month first only.
parse_match_no_swap(dates, m) ==
    IF m[1] # <<>>
    THEN IF datetime_ok(int(m[1]), int(m[2]), int(m[3]))
         THEN Append(dates, <<int(m[1]), int(m[2]), int(m[3])>>)
         ELSE dates
    ELSE LET y == IF Len(m[6]) = 2 THEN <<"2", "0">> \o m[6] ELSE m[6]
         IN IF datetime_ok(int(y), int(m[4]), int(m[5]))
            THEN Append(dates, <<int(y), int(m[4]), int(m[5])>>)
            ELSE dates

\* The body of the for loop of parse_dates for one match m: the dates list
\* with the match's date appended, or unchanged when the match gives none.
parse_match(dates, m) ==
    IF m[1] # <<>>
    THEN LET year == int(m[1])
             month == int(m[2])
             day == int(m[3])
         IN IF datetime_ok(year, month, day)
            THEN Append(dates, <<year, month, day>>)
            ELSE dates
    ELSE LET d1 == m[4]
             d2 == m[5]
             y == IF Len(m[6]) = 2 THEN Twenty \o m[6] ELSE m[6]
         IN IF datetime_ok(int(y), int(d1), int(d2))
            THEN Append(dates, <<int(y), int(d1), int(d2)>>)
            ELSE IF datetime_ok(int(y), int(d2), int(d1))
            THEN Append(dates, <<int(y), int(d2), int(d1)>>)
            ELSE dates

RECURSIVE parse_matches(_, _)
parse_matches(dates, matches) ==
    IF matches = <<>> THEN dates
    ELSE parse_matches(parse_match(dates, Head(matches)), Tail(matches))

parse_dates(text_snippet) ==
    LET matches == findall_dates(text_snippet, 1)
    IN sort(parse_matches(<<>>, matches))

---------------------------------------------------------------------------
(* File name derivation. *)

Ok(v) == [ok |-> TRUE, val |-> v, error |-> "none"]
Raise(e) == [ok |-> FALSE, val |-> <<>>, error |-> e]

\* How many of the characters of s from position i on are whitespace.
RECURSIVE space_run(_, _)
space_run(s, i) ==
    IF i > Len(s) \/ ~IsSpace(s[i]) THEN 0 ELSE 1 + space_run(s, i + 1)

\* The position of the first "\n" at or after i, Len(s) + 1 when there is none:
\* where a greedy .* that starts at i ends.
line_end(s, i) ==
    LET e == first_pos({k \in i..Len(s) : s[k] = "\n"})
    IN IF e = 0 THEN Len(s) + 1 ELSE e

\* A match, at position i exactly, of ^Period\s+\d+\s+Starts.*(?:\n.*)*? under
\* IGNORECASE | MULTILINE: the position after the match, 0 when there is none.
\* The lazy group at the end takes no line: nothing follows it in the pattern.
match_period(s, i) ==
    LET low == lower(s)
        p1 == i + 6
        w1 == space_run(s, p1)
        p2 == p1 + w1
        n == digit_run(s, p2, Len(s))
        p3 == p2 + n
        w2 == space_run(s, p3)
        p4 == p3 + w2
    IN IF /\ (i = 1 \/ s[i - 1] = "\n")
          /\ startswith_at(low, i, <<"p", "e", "r", "i", "o", "d">>)
          /\ w1 >= 1 /\ n >= 1 /\ w2 >= 1
          /\ startswith_at(low, p4, <<"s", "t", "a", "r", "t", "s">>)
       THEN line_end(s, p4 + 6)
       ELSE 0

\* re.sub(<the Period pattern>, "", s): s from position start on, without the
\* matches, which are taken from left to right and do not overlap.
RECURSIVE sub_period(_, _)
sub_period(s, start) ==
    LET i == first_pos({k \in start..Len(s) : match_period(s, k) # 0})
    IN IF i = 0 THEN SubSeq(s, start, Len(s))
       ELSE SubSeq(s, start, i - 1) \o sub_period(s, match_period(s, i))

\* A match, at position i exactly, of Name:\s*(.+) under IGNORECASE: group 1.
\* \s* is greedy and gives characters back, one at a time, while (.+) finds no
\* character other than "\n" to start with.
RECURSIVE name_group(_, _, _)
name_group(s, start, taken) ==
    LET g == start + taken
    IN IF g <= Len(s) /\ s[g] # "\n"
       THEN [ok |-> TRUE, val |-> SubSeq(s, g, line_end(s, g) - 1)]
       ELSE IF taken = 0 THEN [ok |-> FALSE, val |-> <<>>]
       ELSE name_group(s, start, taken - 1)

\* low is s lowercased, which is how IGNORECASE compares the label.
match_name(s, low, i) ==
    IF startswith_at(low, i, <<"n", "a", "m", "e", ":">>)
    THEN name_group(s, i + 5, space_run(s, i + 5))
    ELSE [ok |-> FALSE, val |-> <<>>]

\* re.search(r"Name:\s*(.+)", s, re.IGNORECASE): group 1 of the leftmost match.
search_name(s) ==
    LET low == lower(s)
        i == first_pos({k \in 1..Len(s) : match_name(s, low, k).ok})
    IN IF i = 0 THEN [ok |-> FALSE, val |-> <<>>] ELSE match_name(s, low, i)

\* Lines 116-122: the file name of a parsed name and a sorted, non-empty list
\* of dates.
compose(full_name, dates) ==
    LET first_date_str == strftime_md(dates[1])
        last_date_str == strftime_md(dates[Len(dates)])
        day_before_last == minus_one_day(dates[Len(dates)])
        short_code == get_short_name_code(full_name)
    IN IF ~day_before_last.ok THEN Raise("OverflowError")
       ELSE IF ~short_code.ok THEN Raise("IndexError")
       ELSE Ok(full_name \o <<" ", "E", "K", "H", "O", " ", "-", " ">>
               \o short_code.val \o <<"_">> \o first_date_str \o <<"-">>
               \o last_date_str \o <<" ", "-", " ", "W", "E", "2", "5">>
               \o strftime_md(day_before_last.val) \o <<".", "p", "d", "f">>)

\* generate_filename that goes on with an empty name when the text has no
\* name label.
generate_filename_name_unchecked(full_text0, names_db) ==
    LET full_text == sub_period(full_text0, 1)
        name_match == search_name(full_text)
        date_pos == find(lower(full_text), <<"d", "a", "t", "e">>)
    IN IF date_pos = 0 THEN Raise("Date header not found")
       ELSE LET raw_name == strip(name_match.val)
                full_name == parse_name(raw_name, names_db)
                date_text_snippet == SubSeq(full_text, date_pos, Len(full_text))
                dates == parse_dates(date_text_snippet)
            IN IF dates = <<>> THEN Raise("No valid dates found")
               ELSE compose(full_name, dates)

generate_filename(full_text0, names_db) ==
    LET full_text == sub_period(full_text0, 1)
        name_match == search_name(full_text)
        date_pos == find(lower(full_text), <<"d", "a", "t", "e">>)
    IN IF ~name_match.ok THEN Raise("Name not found in PDF")
       ELSE IF date_pos = 0 THEN Raise("Date header not found")
       ELSE LET raw_name == strip(name_match.val)
                full_name == parse_name(raw_name, names_db)
                date_text_snippet == SubSeq(full_text, date_pos, Len(full_text))
                dates == parse_dates(date_text_snippet)
            IN IF dates = <<>> THEN Raise("No valid dates found")
               ELSE compose(full_name, dates)

---------------------------------------------------------------------------
(* The functions applied to arguments drawn from bounded sets. *)

NotApplied == [done |-> FALSE, val |-> <<>>]
Applied(v) == [done |-> TRUE, val |-> v]

\* The folder loop is not running.
NoRun ==
    /\ folder = <<>>
    /\ listing = <<>>
    /\ idx = 0
    /\ pc = "idle"
    /\ cur = <<>>
    /\ attempts = <<>>
    /\ renames = <<>>
    /\ log = <<>>

run_vars == <<folder, listing, idx, pc, cur, attempts, renames, log>>

\* "Kovács"
Kovacs ==
    <<"K", "o", "v", "á", "c", "s">>

\* "János"
Janos ==
    <<"J", "á", "n", "o", "s">>

\* "Smith"
Smith ==
    <<"S", "m", "i", "t", "h">>

\* "John"
John ==
    <<"J", "o", "h", "n">>

\* "Ltd"
Ltd ==
    <<"L", "t", "d">>

\* "JANOS"
JANOS_upper ==
    <<"J", "A", "N", "O", "S">>

\* The words raw names are made of, and how many a raw name has at most.
NameWords == {Kovacs, Janos, Smith, John, Company, Ltd}
MaxTokens == 4

\* What stands between two words, and around the name.
Spacings ==
    {[sep |-> <<" ">>, pad |-> <<>>],
     [sep |-> <<" ", " ">>, pad |-> <<" ">>],
     [sep |-> <<"\t">>, pad |-> <<>>]}

\* The first-name lists.
NameDbs == {{Janos}, {John}, {JANOS_upper, Smith}}

\* The raw names of at most max words.
RawNames(max) ==
    UNION {{sp.pad \o join(sp.sep, ws) \o sp.pad :
               ws \in [1..n -> NameWords], sp \in Spacings} :
           n \in 0..max}

InitName ==
    /\ inp \in [raw_name : RawNames(MaxTokens), names_db : NameDbs]
    /\ out = NotApplied
    /\ NoRun

ApplyParseName ==
    /\ ~out.done
    /\ out' = Applied(parse_name(inp.raw_name, inp.names_db))
    /\ UNCHANGED <<inp, run_vars>>

SpecName == InitName /\ [][ApplyParseName]_vars

---------------------------------------------------------------------------
(* parse_dates applied to texts with one date candidate, written out from its *)
(* numbers, and to texts with several dates.                                  *)

\* n in decimal, width digits, zero-padded.
RECURSIVE digits_of(_, _)
digits_of(n, width) ==
    IF width = 0 THEN <<>>
    ELSE digits_of(n \div 10, width - 1) \o <<Digits[(n % 10) + 1]>>

\* A number and the number of digits it is written with.
Form(v, w) == [v |-> v, w |-> w]
written(form) == digits_of(form.v, form.w)

FieldForms ==
    {Form(5, 2), Form(3, 2), Form(2, 1), Form(10, 2), Form(13, 2), Form(29, 2),
     Form(31, 2), Form(0, 2)}
YearForms == {Form(24, 2), Form(2024, 4), Form(2023, 4), Form(23, 3), Form(0, 4)}
SepChars == {".", "/", "-"}

\* "date: "
DatePrefix ==
    <<"d", "a", "t", "e", ":", " ">>

\* " to "
To ==
    <<" ", "t", "o", " ">>

\* " to 2024-01-15"
TrailingDate ==
    <<" ", "t", "o", " ", "2", "0", "2", "4", "-", "0", "1", "-", "1", "5">>

TrailingDates == {<<>>, TrailingDate}

\* One candidate for the second alternative of the pattern: field1, field2, year.
DmyInputs ==
    {[kind |-> "dmy", f1 |-> f1, f2 |-> f2, y |-> y, trailing |-> t # <<>>,
      text |-> DatePrefix \o written(f1) \o <<s1>> \o written(f2) \o <<s2>>
               \o written(y) \o t] :
        f1 \in FieldForms, f2 \in FieldForms, y \in YearForms,
        s1 \in SepChars, s2 \in SepChars, t \in TrailingDates}

\* One candidate for the first alternative: year, month, day.
YmdInputs ==
    {[kind |-> "ymd", f1 |-> f1, f2 |-> f2, y |-> y, trailing |-> t # <<>>,
      text |-> DatePrefix \o written(y) \o <<s1>> \o written(f1) \o <<s2>>
               \o written(f2) \o t] :
        f1 \in FieldForms, f2 \in FieldForms, y \in {f \in YearForms : f.w = 4},
        s1 \in SepChars, s2 \in SepChars, t \in TrailingDates}

\* "05.03.24"
RangeToken1 ==
    <<"0", "5", ".", "0", "3", ".", "2", "4">>

\* "10.03.24"
RangeToken2 ==
    <<"1", "0", ".", "0", "3", ".", "2", "4">>

\* "2024.03.05"
RangeToken3 ==
    <<"2", "0", "2", "4", ".", "0", "3", ".", "0", "5">>

\* "2024.03.10"
RangeToken4 ==
    <<"2", "0", "2", "4", ".", "0", "3", ".", "1", "0">>

\* "31.12.2023"
RangeToken5 ==
    <<"3", "1", ".", "1", "2", ".", "2", "0", "2", "3">>

\* "13.45.2024"
RangeToken6 ==
    <<"1", "3", ".", "4", "5", ".", "2", "0", "2", "4">>

RangeTokens ==
    {RangeToken1, RangeToken2, RangeToken3, RangeToken4, RangeToken5, RangeToken6}
MaxDates == 2

\* The texts with at most max dates.
RangeInputs(max) ==
    UNION {{[kind |-> "range", text |-> DatePrefix \o join(To, ts)] :
               ts \in [1..n -> RangeTokens]} : n \in 1..max}

InitDates ==
    /\ inp \in DmyInputs \cup YmdInputs \cup RangeInputs(MaxDates)
    /\ out = NotApplied
    /\ NoRun

ApplyParseDates ==
    /\ ~out.done
    /\ out' = Applied(parse_dates(inp.text))
    /\ UNCHANGED <<inp, run_vars>>

SpecDates == InitDates /\ [][ApplyParseDates]_vars

---------------------------------------------------------------------------
(* Lines 116-122 applied to parsed names and sorted date lists. *)

\* "JANOS KOVACS"
JANOS_KOVACS ==
    <<"J", "A", "N", "O", "S", " ", "K", "O", "V", "A", "C", "S">>

\* "KOVACS JANOS"
KOVACS_JANOS ==
    <<"K", "O", "V", "A", "C", "S", " ", "J", "A", "N", "O", "S">>

\* "LI WEI"
LI_WEI ==
    <<"L", "I", " ", "W", "E", "I">>

\* "ABC D"
ABC_D ==
    <<"A", "B", "C", " ", "D">>

FullNames == {JANOS_KOVACS, KOVACS_JANOS, LI_WEI, ABC_D, <<>>}

ComposeDates ==
    {<<2024, 3, 5>>, <<2024, 3, 10>>, <<2024, 3, 1>>, <<2025, 1, 1>>,
     <<2023, 12, 31>>, <<1, 1, 1>>}
MaxComposeDates == 2

\* The lists of at most max dates; parse_dates returns its list sorted.
DateLists(max) ==
    UNION {{sort(ds) : ds \in [1..n -> ComposeDates]} : n \in 1..max}

InitCompose ==
    /\ inp \in [full_name : FullNames, dates : DateLists(MaxComposeDates)]
    /\ out = NotApplied
    /\ NoRun

ApplyCompose ==
    /\ ~out.done
    /\ out' = Applied(compose(inp.full_name, inp.dates))
    /\ UNCHANGED <<inp, run_vars>>

SpecCompose == InitCompose /\ [][ApplyCompose]_vars

---------------------------------------------------------------------------
(* generate_filename applied to document texts. *)

\* "Period 1 Starts date 2023.01.01\n"
PeriodLine ==
    <<"P", "e", "r", "i", "o", "d", " ", "1", " ", "S", "t", "a", "r", "t",
      "s", " ", "d", "a", "t", "e", " ", "2", "0", "2", "3", ".", "0", "1",
      ".", "0", "1", "\n">>

\* "01.01.2020\n"
EarlyDateLine ==
    <<"0", "1", ".", "0", "1", ".", "2", "0", "2", "0", "\n">>

\* "Name: Kovács János\n"
NameLine1 ==
    <<"N", "a", "m", "e", ":", " ", "K", "o", "v", "á", "c", "s", " ", "J",
      "á", "n", "o", "s", "\n">>

\* "NAME:John Smith\n"
NameLine2 ==
    <<"N", "A", "M", "E", ":", "J", "o", "h", "n", " ", "S", "m", "i", "t",
      "h", "\n">>

\* "Name: \n"
NameLine3 ==
    <<"N", "a", "m", "e", ":", " ", "\n">>

\* "Date "
Marker1 ==
    <<"D", "a", "t", "e", " ">>

\* "dates: "
Marker2 ==
    <<"d", "a", "t", "e", "s", ":", " ">>

\* " - "
Dash ==
    <<" ", "-", " ">>

\* "2024.03.05"
DocDate1 ==
    <<"2", "0", "2", "4", ".", "0", "3", ".", "0", "5">>

\* "2024.03.10"
DocDate2 ==
    <<"2", "0", "2", "4", ".", "0", "3", ".", "1", "0">>

\* "01.03.2024"
DocDate3 ==
    <<"0", "1", ".", "0", "3", ".", "2", "0", "2", "4">>

\* "2025-01-01"
DocDate4 ==
    <<"2", "0", "2", "5", "-", "0", "1", "-", "0", "1">>

\* "2024/03/01"
DocDate5 ==
    <<"2", "0", "2", "4", "/", "0", "3", "/", "0", "1">>

\* "13.45.2024"
DocDate6 ==
    <<"1", "3", ".", "4", "5", ".", "2", "0", "2", "4">>

\* "0001.01.01"
DocDate7 ==
    <<"0", "0", "0", "1", ".", "0", "1", ".", "0", "1">>

\* The date candidates of document texts, each with the dates it stands for.
DocDates ==
    {[text |-> DocDate1, dates |-> <<<<2024, 3, 5>>>>],
     [text |-> DocDate2, dates |-> <<<<2024, 3, 10>>>>],
     [text |-> DocDate3, dates |-> <<<<2024, 1, 3>>>>],
     [text |-> DocDate4, dates |-> <<<<2025, 1, 1>>>>],
     [text |-> DocDate5, dates |-> <<<<2024, 3, 1>>>>],
     [text |-> DocDate6, dates |-> <<>>],
     [text |-> DocDate7, dates |-> <<<<1, 1, 1>>>>]}
MaxDocDates == 2

Heads == {<<>>, PeriodLine, EarlyDateLine}
NameLines == {<<>>, NameLine1, NameLine2, NameLine3}
Markers == {<<>>, Marker1, Marker2}
DocDbs == {{Janos, John}}

RECURSIVE flatten(_)
flatten(seqs) == IF seqs = <<>> THEN <<>> ELSE Head(seqs) \o flatten(Tail(seqs))

\* A document text: an optional first line, an optional name line, an optional
\* date marker, the date candidates.  dates are the dates that stand after the
\* marker, in the order of the text.  At most max date candidates.
DocInputs(max) ==
    UNION {{[text |-> head \o name \o marker
                      \o join(Dash, [i \in 1..n |-> ds[i].text]),
             names_db |-> db,
             named |-> name # <<>>,
             marked |-> marker # <<>>,
             dates |-> IF marker = <<>> THEN <<>>
                       ELSE flatten([i \in 1..n |-> ds[i].dates])] :
               head \in Heads, name \in NameLines, marker \in Markers,
               db \in DocDbs, ds \in [1..n -> DocDates]} :
           n \in 0..max}

InitFile ==
    /\ inp \in DocInputs(MaxDocDates)
    /\ out = NotApplied
    /\ NoRun

ApplyGenerateFilename ==
    /\ ~out.done
    /\ out' = Applied(generate_filename(inp.text, inp.names_db))
    /\ UNCHANGED <<inp, run_vars>>

SpecFile == InitFile /\ [][ApplyGenerateFilename]_vars

---------------------------------------------------------------------------
(* The folder loop. *)

\* "HETI TELJESÍTÉSI IGAZOLÁS"
KEYWORD ==
    <<"H", "E", "T", "I", " ", "T", "E", "L", "J", "E", "S", "Í", "T", "É",
      "S", "I", " ", "I", "G", "A", "Z", "O", "L", "Á", "S">>

\* ".pdf"
DotPdf ==
    <<".", "p", "d", "f">>

\* A document: the pages' texts, and whether it is restricted.  id tells the
\* documents apart.
Document(id, restricted, pages) ==
    [id |-> id, restricted |-> restricted, pages |-> pages]

\* filename.lower().endswith(".pdf")
is_pdf(filename) ==
    LET low == lower(filename)
    IN Len(low) >= Len(DotPdf) /\ Suffix(low, Len(DotPdf)) = DotPdf

\* The document unlock_pdf writes: every page, in a new writer.
unlock_pdf(doc) == [doc EXCEPT !.restricted = FALSE]

\* removed: what remove_certification_page returns; doc: the document it
\* leaves in the file.
remove_certification_page(doc) ==
    LET has_keyword(text) == text # <<>> /\ contains(text, KEYWORD)
        remove_indices == {i \in 1..Len(doc.pages) : has_keyword(doc.pages[i])}
        keep(text) == ~has_keyword(text)
    IN IF remove_indices = {} THEN [removed |-> FALSE, doc |-> doc]
       ELSE [removed |-> TRUE,
             doc |-> [doc EXCEPT !.pages = SelectSeq(doc.pages, keep)]]

\* Lines 184-191: the text of the first half of the pages.
RECURSIVE pages_text(_)
pages_text(pages) ==
    IF pages = <<>> THEN <<>>
    ELSE (IF Head(pages) # <<>> THEN Head(pages) \o <<"\n">> ELSE <<>>)
         \o pages_text(Tail(pages))

extract_full_text(doc) ==
    LET total_pages == Len(doc.pages)
        half == total_pages \div 2
        half_pages == IF half > 1 THEN half ELSE 1
    IN pages_text(SubSeq(doc.pages, 1,
                         IF half_pages < total_pages THEN half_pages
                         ELSE total_pages))

\* os.rename(file_path, new_path) when it succeeds: the document is under the
\* new name, in the place of whatever was there.
os_rename(files, old, new) ==
    [n \in (DOMAIN files \ {old}) \cup {new} |->
        IF n = new THEN files[old] ELSE files[n]]

NoLocals == [full_text |-> <<>>, new_name |-> <<>>]

Message(msg, detail) == [msg |-> msg, detail |-> detail]

Logged(entry) == log' = [log EXCEPT ![idx] = Append(@, entry)]

file_path == listing[idx]

\* except_handler that leaves the loop.
except_handler_stop(e) ==
    /\ Logged(Message("Failed to process", e))
    /\ idx' = Len(listing) + 1
    /\ pc' = "for"
    /\ cur' = NoLocals

\* except Exception as e: the failure is printed and the loop goes on.
except_handler(e) ==
    /\ Logged(Message("Failed to process", e))
    /\ idx' = idx + 1
    /\ pc' = "for"
    /\ cur' = NoLocals

\* Line 171, a name that does not end in .pdf: next file.
SkipFile ==
    /\ pc = "for"
    /\ idx <= Len(listing)
    /\ ~is_pdf(file_path)
    /\ idx' = idx + 1
    /\ UNCHANGED <<inp, out, folder, listing, pc, cur, attempts, renames, log>>

\* Line 171, a name that ends in .pdf: the try block is entered.
EnterTry ==
    /\ pc = "for"
    /\ idx <= Len(listing)
    /\ is_pdf(file_path)
    /\ attempts' = [attempts EXCEPT ![idx] = @ + 1]
    /\ pc' = "unlock"
    /\ UNCHANGED <<inp, out, folder, listing, idx, cur, renames, log>>

\* Line 176.  The file may be missing or unreadable.
Unlock ==
    /\ pc = "unlock"
    /\ \E raised \in BOOLEAN :
        IF raised \/ file_path \notin DOMAIN folder
        THEN /\ except_handler("unlock_pdf")
             /\ UNCHANGED folder
        ELSE /\ folder' = [folder EXCEPT ![file_path] = unlock_pdf(@)]
             /\ Logged(Message("Unlocked PDF", "none"))
             /\ pc' = "strip"
             /\ UNCHANGED <<idx, cur>>
    /\ UNCHANGED <<inp, out, listing, attempts, renames>>

\* Lines 180-182.
Strip ==
    /\ pc = "strip"
    /\ \E raised \in BOOLEAN :
        IF raised
        THEN /\ except_handler("remove_certification_page")
             /\ UNCHANGED folder
        ELSE LET r == remove_certification_page(folder[file_path])
             IN /\ folder' = [folder EXCEPT ![file_path] = r.doc]
                /\ IF r.removed
                   THEN Logged(Message("Certification page removed", "none"))
                   ELSE UNCHANGED log
                /\ pc' = "extract"
                /\ UNCHANGED <<idx, cur>>
    /\ UNCHANGED <<inp, out, listing, attempts, renames>>

\* Lines 184-191.
Extract ==
    /\ pc = "extract"
    /\ \E raised \in BOOLEAN :
        IF raised
        THEN except_handler("pdfplumber")
        ELSE /\ cur' = [cur EXCEPT !.full_text = extract_full_text(folder[file_path])]
             /\ pc' = "derive"
             /\ UNCHANGED <<idx, log>>
    /\ UNCHANGED <<inp, out, folder, listing, attempts, renames>>

\* Line 193.
Derive ==
    /\ pc = "derive"
    /\ LET r == generate_filename(cur.full_text, inp.names_db)
       IN IF r.ok
          THEN /\ cur' = [cur EXCEPT !.new_name = r.val]
               /\ pc' = "rename"
               /\ UNCHANGED <<idx, log>>
          ELSE except_handler(r.error)
    /\ UNCHANGED <<inp, out, folder, listing, attempts, renames>>

\* Lines 194-196.  os.rename onto a name that another file has replaces that
\* file (POSIX) or raises FileExistsError (Windows); it may raise OSError for
\* other reasons.
Rename ==
    /\ pc = "rename"
    /\ renames' = [renames EXCEPT ![idx] = @ + 1]
    /\ \E raised \in BOOLEAN :
        IF raised
        THEN /\ except_handler("OSError")
             /\ UNCHANGED folder
        ELSE /\ folder' = os_rename(folder, file_path, cur.new_name)
             /\ Logged(Message("Renamed", "none"))
             /\ idx' = idx + 1
             /\ pc' = "for"
             /\ cur' = NoLocals
    /\ UNCHANGED <<inp, out, listing, attempts>>

\* The listing is exhausted: process_and_rename_pdfs returns.
Return ==
    /\ pc = "for"
    /\ idx > Len(listing)
    /\ pc' = "done"
    /\ UNCHANGED <<inp, out, folder, listing, idx, cur, attempts, renames, log>>

\* "a.pdf"
FileA ==
    <<"a", ".", "p", "d", "f">>

\* "B.PDF"
FileB ==
    <<"B", ".", "P", "D", "F">>

\* "notes.txt"
FileNotes ==
    <<"n", "o", "t", "e", "s", ".", "t", "x", "t">>

\* "KOVACS JANOS EKHO - KOVA_0305-0310 - WE250309.pdf"
FileDone ==
    <<"K", "O", "V", "A", "C", "S", " ", "J", "A", "N", "O", "S", " ", "E",
      "K", "H", "O", " ", "-", " ", "K", "O", "V", "A", "_", "0", "3", "0",
      "5", "-", "0", "3", "1", "0", " ", "-", " ", "W", "E", "2", "5", "0",
      "3", "0", "9", ".", "p", "d", "f">>

\* "Name: Kovács János\nDate 2024.03.05 - 2024.03.10"
PageKovacs ==
    <<"N", "a", "m", "e", ":", " ", "K", "o", "v", "á", "c", "s", " ", "J",
      "á", "n", "o", "s", "\n", "D", "a", "t", "e", " ", "2", "0", "2",
      "4", ".", "0", "3", ".", "0", "5", " ", "-", " ", "2", "0", "2", "4",
      ".", "0", "3", ".", "1", "0">>

\* "HETI TELJESÍTÉSI IGAZOLÁS\nName: Nagy Éva\nDate 2020.01.01"
PageCert ==
    <<"H", "E", "T", "I", " ", "T", "E", "L", "J", "E", "S", "Í", "T", "É",
      "S", "I", " ", "I", "G", "A", "Z", "O", "L", "Á", "S", "\n", "N",
      "a", "m", "e", ":", " ", "N", "a", "g", "y", " ", "É", "v", "a",
      "\n", "D", "a", "t", "e", " ", "2", "0", "2", "0", ".", "0", "1",
      ".", "0", "1">>

\* "Name: Smith John Company Ltd"
PageName ==
    <<"N", "a", "m", "e", ":", " ", "S", "m", "i", "t", "h", " ", "J", "o",
      "h", "n", " ", "C", "o", "m", "p", "a", "n", "y", " ", "L", "t", "d">>

\* "Date 05.03.24 to 10.03.24"
PageDates ==
    <<"D", "a", "t", "e", " ", "0", "5", ".", "0", "3", ".", "2", "4", " ",
      "t", "o", " ", "1", "0", ".", "0", "3", ".", "2", "4">>

\* "Date 2024.03.05"
PageNoName ==
    <<"D", "a", "t", "e", " ", "2", "0", "2", "4", ".", "0", "3", ".", "0",
      "5">>

\* "Name: John Smith\n2024.03.05"
PageNoMarker ==
    <<"N", "a", "m", "e", ":", " ", "J", "o", "h", "n", " ", "S", "m", "i",
      "t", "h", "\n", "2", "0", "2", "4", ".", "0", "3", ".", "0", "5">>

\* "Name: John Smith\nDate: 13.45.2024"
PageNoDates ==
    <<"N", "a", "m", "e", ":", " ", "J", "o", "h", "n", " ", "S", "m", "i",
      "t", "h", "\n", "D", "a", "t", "e", ":", " ", "1", "3", ".", "4",
      "5", ".", "2", "0", "2", "4">>

\* The pages of the documents, and whether each is restricted.
Contents ==
    {[restricted |-> TRUE, pages |-> <<PageCert, PageKovacs>>],
     [restricted |-> FALSE, pages |-> <<PageKovacs>>],
     [restricted |-> FALSE, pages |-> <<PageName, PageDates, PageKovacs, PageCert>>],
     [restricted |-> FALSE, pages |-> <<PageNoName>>],
     [restricted |-> FALSE, pages |-> <<PageNoMarker>>],
     [restricted |-> TRUE, pages |-> <<PageNoDates>>]}

\* What a file of the folder may hold: notes.txt is no PDF, and the file that
\* has the derived name already is a document renamed by an earlier run.
ContentsOf(name) ==
    IF name = FileNotes THEN {[restricted |-> FALSE, pages |-> <<>>]}
    ELSE IF name = FileDone THEN {[restricted |-> FALSE, pages |-> <<PageKovacs>>]}
    ELSE Contents

FileNames == {FileA, FileB, FileNotes, FileDone}
MaxFiles == 2

\* The first names read from hungarian_names.txt.
RunDb == {Janos, John}

\* The folders of at most max files.
Folders(max) ==
    UNION {{[n \in names |-> Document(n, c[n].restricted, c[n].pages)] :
               c \in {f \in [names -> UNION {ContentsOf(n) : n \in names}] :
                         \A n \in names : f[n] \in ContentsOf(n)}} :
           names \in {ns \in SUBSET FileNames : Cardinality(ns) <= max}}

\* os.listdir: every name once, in any order.
Listings(names) ==
    {l \in [1..Cardinality(names) -> names] : Range(l) = names}

Init ==
    /\ folder \in Folders(MaxFiles)
    /\ listing \in Listings(DOMAIN folder)
    /\ idx = 1
    /\ pc = "for"
    /\ cur = NoLocals
    /\ attempts = [i \in 1..Len(listing) |-> 0]
    /\ renames = [i \in 1..Len(listing) |-> 0]
    /\ log = [i \in 1..Len(listing) |-> <<>>]
    /\ inp = [names_db |-> RunDb]
    /\ out = NotApplied

Next ==
    \/ SkipFile
    \/ EnterTry
    \/ Unlock
    \/ Strip
    \/ Extract
    \/ Derive
    \/ Rename
    \/ Return

Spec == Init /\ [][Next]_vars

---------------------------------------------------------------------------
(* The properties. *)

\* A date of the calendar: thirty days have September, April, June and
\* November, February has 28 and in a leap year 29, the others 31.
CalendarDate(y, m, d) ==
    /\ y \in 1..9999
    /\ m \in 1..12
    /\ d >= 1
    /\ d <= (IF m \in {4, 6, 9, 11} THEN 30
             ELSE IF m # 2 THEN 31
             ELSE IF y % 4 = 0 /\ (y % 100 # 0 \/ y % 400 = 0) THEN 29
             ELSE 28)

\* The day before a date of the calendar other than 0001-01-01.
PrevDay(dt) ==
    IF dt[3] > 1 THEN <<dt[1], dt[2], dt[3] - 1>>
    ELSE IF dt[2] > 1
    THEN <<dt[1], dt[2] - 1,
           CHOOSE d \in 28..31 : CalendarDate(dt[1], dt[2] - 1, d)
                                 /\ ~CalendarDate(dt[1], dt[2] - 1, d + 1)>>
    ELSE <<dt[1] - 1, 12, 31>>

\* A date as the number yyyymmdd: the order of these numbers is the order of time.
Stamp(dt) == dt[1] * 10000 + dt[2] * 100 + dt[3]

\* MMDD
MonthDay(dt) ==
    <<Digits[(dt[2] \div 10) + 1], Digits[(dt[2] % 10) + 1],
      Digits[(dt[3] \div 10) + 1], Digits[(dt[3] % 10) + 1]>>

\* "Kovács János"
RawKovacsJanos == Kovacs \o <<" ">> \o Janos

\* "Smith John Company Ltd"
RawSmithJohnCompanyLtd ==
    Smith \o <<" ">> \o John \o <<" ">> \o Company \o <<" ">> \o Ltd

\* "SMITH JOHN"
SMITH_JOHN ==
    <<"S", "M", "I", "T", "H", " ", "J", "O", "H", "N">>

\* C3 as stated: parse("Kovács János", {"János"}) returns "JANOS KOVACS".
C3_AsStated ==
    (out.done /\ inp.raw_name = RawKovacsJanos /\ inp.names_db = {Janos})
        => out.val = JANOS_KOVACS

\* C3 as amended: parse("Kovács János", {"János"}) returns "KOVACS JANOS": the
\* first token, "Kovács", is not in the dictionary, so the tokens keep their
\* order; the name is accent-stripped and uppercased.
C3_NoReorder ==
    (out.done /\ inp.raw_name = RawKovacsJanos /\ inp.names_db = {Janos})
        => out.val = KOVACS_JANOS

C3_Parsed ==
    out.done /\ inp.raw_name = RawKovacsJanos /\ inp.names_db = {Janos}

\* The raw name, stripped, up to the first occurrence of "Company".
BeforeCompany(raw_name) ==
    LET stripped == strip(raw_name)
        at == {i \in 1..Len(stripped) : startswith_at(stripped, i, Company)}
    IN IF at = {} THEN stripped
       ELSE SubSeq(stripped, 1, (CHOOSE i \in at : \A j \in at : i <= j) - 1)

\* C7: after the raw name is cut at the first "Company", the first two tokens
\* are swapped if and only if there are at least two tokens and the first one,
\* accent-stripped and lowercased, equals a dictionary entry treated the same
\* way; otherwise the tokens keep their order.  The second token is never
\* looked up.  parse("Smith John Company Ltd", {"John"}) = "SMITH JOHN".
C7_PositionalRule ==
    out.done =>
        LET tokens == split(BeforeCompany(inp.raw_name))
            normal(n) == lower(remove_accents(n))
            swaps == /\ Len(tokens) >= 2
                     /\ \E n \in inp.names_db : normal(n) = normal(tokens[1])
            expected == IF swaps
                        THEN <<tokens[2], tokens[1]>> \o SubSeq(tokens, 3, Len(tokens))
                        ELSE tokens
        IN /\ split(out.val)
                = [i \in 1..Len(expected) |-> upper(remove_accents(expected[i]))]
           /\ (inp.raw_name = RawSmithJohnCompanyLtd /\ inp.names_db = {John})
                => out.val = SMITH_JOHN

C7_Example ==
    /\ out.done
    /\ inp.raw_name = RawSmithJohnCompanyLtd
    /\ inp.names_db = {John}
    /\ out.val = SMITH_JOHN

\* C8: the parsed name has no leading, trailing or consecutive whitespace:
\* split on whitespace and joined again with single spaces it is the same
\* string.
C8_SingleSpaced ==
    out.done => out.val = join(<<" ">>, split(out.val))

\* "date: 05.03.24 to 10.03.24"
C4Text == DatePrefix \o RangeToken1 \o To \o RangeToken2

C5FileNameAsStated ==
    <<"J", "A", "N", "O", "S", " ", "K", "O", "V", "A", "C", "S", " ", "E",
      "K", "H", "O", " ", "-", " ", "K", "O", "V", "A", "_", "0", "3", "0",
      "5", "-", "0", "3", "1", "0", " ", "-", " ", "W", "E", "2", "5", "0",
      "3", "0", "9", ".", "p", "d", "f">>

\* "JANOS KOVACS EKHO - JANO_0305-0310 - WE250309.pdf"
C5FileName ==
    <<"J", "A", "N", "O", "S", " ", "K", "O", "V", "A", "C", "S", " ", "E",
      "K", "H", "O", " ", "-", " ", "J", "A", "N", "O", "_", "0", "3", "0",
      "5", "-", "0", "3", "1", "0", " ", "-", " ", "W", "E", "2", "5", "0",
      "3", "0", "9", ".", "p", "d", "f">>

C5Dates == << <<2024, 3, 5>>, <<2024, 3, 10>> >>

\* C5 as stated: compose("JANOS KOVACS", [2024-03-05, 2024-03-10]) returns
\* "JANOS KOVACS EKHO - KOVA_0305-0310 - WE250309.pdf".
C5_AsStated ==
    (out.done /\ inp.full_name = JANOS_KOVACS /\ inp.dates = C5Dates)
        => out.val = Ok(C5FileNameAsStated)

\* C5 as amended: compose("JANOS KOVACS", [2024-03-05, 2024-03-10]) returns
\* "JANOS KOVACS EKHO - JANO_0305-0310 - WE250309.pdf": the code fragment is
\* the first four characters of the first token of the name passed in, "JANO".
C5_FirstTokenCode ==
    (out.done /\ inp.full_name = JANOS_KOVACS /\ inp.dates = C5Dates)
        => out.val = Ok(C5FileName)

C5_Composed ==
    out.done /\ inp.full_name = JANOS_KOVACS /\ inp.dates = C5Dates

\* C9: a text with a name and with a valid date after the date marker gives a
\* file name (unless the latest date is 0001-01-01, which has no day before
\* it), and a file name derived from a text ends with
\* _<first>-<last> - WE25<before>.pdf where <first> is the MMDD of the earliest
\* valid date after the marker, <last> the MMDD of the latest, and <before>
\* the MMDD of the day before the latest, whatever the order of the dates in
\* the text.
C9_Fragments ==
    out.done =>
        LET valid == Range(inp.dates)
            earliest == CHOOSE d \in valid : \A e \in valid : Stamp(d) <= Stamp(e)
            latest == CHOOSE d \in valid : \A e \in valid : Stamp(e) <= Stamp(d)
        IN /\ out.val.ok <=> /\ inp.named /\ inp.marked /\ valid # {}
                             /\ latest # <<1, 1, 1>>
           /\ out.val.ok =>
                Suffix(out.val.val, 25)
                  = <<"_">> \o MonthDay(earliest) \o <<"-">> \o MonthDay(latest)
                    \o <<" ", "-", " ", "W", "E", "2", "5">>
                    \o MonthDay(PrevDay(latest)) \o <<".", "p", "d", "f">>

\* The dates stand in the text latest first, and the day before the latest is
\* in the year before.
C9_OutOfOrder ==
    /\ out.done
    /\ out.val.ok
    /\ inp.dates = << <<2025, 1, 1>>, <<2024, 3, 5>> >>
    /\ Suffix(out.val.val, 25)
         = <<"_", "0", "3", "0", "5", "-", "0", "1", "0", "1", " ", "-", " ",
             "W", "E", "2", "5", "1", "2", "3", "1", ".", "p", "d", "f">>

---------------------------------------------------------------------------
(* The properties of the folder loop. *)

\* The names of FileNames that end in .pdf, in whatever case.
PdfNames == {FileA, FileB, FileDone}

Failed(e) == Message("Failed to process", e)

\* C1: every entry of the listing whose name ends in .pdf is attempted exactly
\* once, whatever failed on the entries before it; no other entry is
\* attempted, no rename is done twice, and the loop ends only after the last
\* entry.
C1_EachPdfOnce ==
    /\ \A i \in 1..Len(listing) :
        /\ attempts[i] <= 1
        /\ renames[i] <= attempts[i]
        /\ i < idx => attempts[i] = (IF listing[i] \in PdfNames THEN 1 ELSE 0)
        /\ i > idx => attempts[i] = 0
    /\ pc = "done" => idx = Len(listing) + 1

\* The loop has ended; one document failed, and a later one was renamed.
C1_FailureThenSuccess ==
    /\ pc = "done"
    /\ \E i, j \in 1..Len(listing) :
        /\ i < j
        /\ \E e \in {"unlock_pdf", "Name not found in PDF", "OSError"} :
               Failed(e) \in Range(log[i])
        /\ Message("Renamed", "none") \in Range(log[j])

\* The failure of generate_filename on a text of the documents that has no
\* name label, no date marker, or no valid date; "none" for the other texts.
ExpectedFailure(full_text) ==
    CASE full_text = PageNoName \o <<"\n">> -> "Name not found in PDF"
      [] full_text = PageNoMarker \o <<"\n">> -> "Date header not found"
      [] full_text = PageNoDates \o <<"\n">> -> "No valid dates found"
      [] OTHER -> "none"

\* C2: for a text with no name label, no date marker or no valid date,
\* generate_filename fails with the message of that check, before any date
\* fragment or short code, os.rename is not called, and the file keeps its
\* name; os.rename is called only with a derived file name.
C2_NoRenameWithoutNameOrDates ==
    /\ [][(pc = "derive" /\ ExpectedFailure(cur.full_text) # "none") =>
            /\ log' = [log EXCEPT
                         ![idx] = Append(@, Failed(ExpectedFailure(cur.full_text)))]
            /\ pc' = "for"
            /\ idx' = idx + 1
            /\ renames' = renames
            /\ folder' = folder
            /\ file_path \in DOMAIN folder]_vars
    /\ [][renames' # renames =>
            /\ pc = "rename"
            /\ ExpectedFailure(cur.full_text) = "none"
            /\ cur.new_name # <<>>]_vars

\* A document with no valid date has failed and is still under its name.
C2_DatelessKept ==
    \E i \in 1..Len(listing) :
        /\ i < idx
        /\ log[i] # <<>>
        /\ log[i][Len(log[i])] = Failed("No valid dates found")
        /\ renames[i] = 0
        /\ listing[i] \in DOMAIN folder

\* C10: a rename never replaces another document: the folder holds as many
\* documents as when the run began.
C10_NoDocumentLost ==
    Cardinality({folder[n].id : n \in DOMAIN folder}) = Len(listing)

====
